---- MODULE Spec2Model ----
(***************************************************************************)
(* Model of the DFS2 correlation / covariance pipeline.                    *)
(*                                                                         *)
(*   corr.py, cov.py : the slate correlation assembly loop, the symmetric  *)
(*                     / eigenvalue validator, the covariance scaler and   *)
(*                     the write of the artifact (specification Spec).     *)
(*   data.py         : the slate filter pipeline and the resolution of the *)
(*                     opposing pitcher (specification SpecData).          *)
(*                                                                         *)
(* Correlations are fixed-point numbers: the integer Scale stands for the  *)
(* correlation 1.0, so k stands for k / Scale.  NaN is the float "not a    *)
(* number" pandas uses both for an unset cell and for an undefined         *)
(* correlation.                                                            *)
(***************************************************************************)
EXTENDS Integers, Sequences, FiniteSets, TLC

\* ------------------------------------------------------------------ bounds
MaxPlayers == 3          \* rows of the slate read by corr.py
MaxCovPlayers == 2       \* rows of the slate read by cov.py
MaxOrder == 2            \* batting-order slots a slate batter may have
Scale == 2               \* the integer that stands for correlation 1.0
MaxSlateRows == 3        \* rows of the merged slate data.py filters

NaN == Scale + 1
NoPitcher == 0           \* np.nan in the Opp_Pitcher column

VARIABLES
    script,         \* "corr" | "cov" | "data": the script that runs
    slate,          \* the slate DataFrame, a sequence of rows
    batters_corr,   \* order x order correlation, a function on idx \X idx
    pitchers_corr,  \* batter / opposing pitcher correlation (or NaN)
    corr,           \* the slate correlation frame, Names \X Names -> value
    i,              \* number of slate rows the assembly loop has processed
    hist_in,        \* cov.py: the groupby("Name").std() series, as looked up
    hist_std,       \* cov.py: the standard deviations after the defaults
    pc,             \* position of the script
    err,            \* the exception that ended the run, or "none"
    out             \* the artifacts written, a sequence

vars == <<script, slate, batters_corr, pitchers_corr, corr, i, hist_in,
          hist_std, pc, err, out>>

\* ------------------------------------------------------------ slate (input)
Teams == {"A", "B", "C"}

\* The schedule of the day: A plays B, C plays a team with no row in the slate.
Opponent(t) == IF t = "A" THEN "B" ELSE IF t = "B" THEN "A" ELSE "D"

Names(s) == 1..Len(s)

IsPitcher(row) == row.Position = "P"

PitchersOf(s, t) == {k \in Names(s) : s[k].Team = t /\ IsPitcher(s[k])}

\* A slate row before Opp_Pitcher is known: pitchers carry Order 0.
RowKinds ==
    [Position : {"P"}, Team : Teams, Order : {0}]
      \cup [Position : {"OF"}, Team : Teams, Order : 1..MaxOrder]

\* The upstream contract: names are unique (the name of a row is its place),
\* and every batter's Opp_Pitcher is the one pitcher of the opponent team.
Contract(k) ==
    \A n \in Names(k) :
        ~IsPitcher(k[n]) => Cardinality(PitchersOf(k, Opponent(k[n].Team))) = 1

WithOppPitcher(k) ==
    [n \in Names(k) |->
        [Name |-> n, Position |-> k[n].Position, Team |-> k[n].Team,
         Order |-> k[n].Order,
         Opp_Pitcher |-> IF IsPitcher(k[n]) THEN NoPitcher
                         ELSE CHOOSE p \in PitchersOf(k, Opponent(k[n].Team)) : TRUE]]

Slates(max) ==
    {WithOppPitcher(k) :
        k \in {q \in UNION {[1..n -> RowKinds] : n \in 1..max} : Contract(q)}}

\* ------------------------------------------- historical correlations (input)
OrderCorrValues == {0 - 1, 1, Scale}
PitcherCorrValues == {0 - 1, 0, NaN}

\* DataFrame.corr(): symmetric, the diagonal is exactly 1 where the slot has
\* variance and NaN where it has not, and then its whole row is NaN.
IsCorrFrame(b, idx) ==
    /\ \A x \in idx : b[x, x] \in {Scale, NaN}
    /\ \A x, y \in idx : b[x, y] = b[y, x]
    /\ \A x, y \in idx : (b[x, x] = NaN /\ x # y) => b[x, y] = NaN

CorrFrames ==
    UNION {{b \in [(1..h) \X (1..h) -> OrderCorrValues \cup {NaN}] :
                IsCorrFrame(b, 1..h)} : h \in (MaxOrder - 1)..MaxOrder}

OrderIndex(b) == {p[1] : p \in DOMAIN b}

\* ----------------------------------------------------------- assembly loop
EmptyFrame(s) == [p \in Names(s) \X Names(s) |-> NaN]

SetLoc(M, r, c, v) == [M EXCEPT ![r, c] = v]

\* Faulty variant: the pitcher branch zeroes the pitcher's column instead of its row.
ZeroOthersInColumn(M, r) ==
    [p \in DOMAIN M |-> IF p[2] = r /\ p[1] # r THEN 0 ELSE M[p]]

\* corr.loc[row.Name, corr.columns != row.Name] = 0
ZeroOthersInRow(M, r) ==
    [p \in DOMAIN M |-> IF p[1] = r /\ p[2] # r THEN 0 ELSE M[p]]

\* corr.loc[row.Name, corr.loc[row.Name].isna()] = 0
FillNaRow(M, r) ==
    [p \in DOMAIN M |-> IF p[1] = r /\ M[p] = NaN THEN 0 ELSE M[p]]

\* slate.loc[slate["Team"] == row.Team, :], in slate order
RECURSIVE Teammates(_, _, _)
Teammates(s, t, n) ==
    IF n > Len(s) THEN <<>>
    ELSE (IF s[n].Team = t THEN <<n>> ELSE <<>>) \o Teammates(s, t, n + 1)

\* batters_corr.loc[a, b] raises KeyError for a label outside the index
HasOrder(b, o) == o \in OrderIndex(b)

\* The teammate pass of one batter row; stops at the first failed lookup.
RECURSIVE TeammatePass(_, _, _, _, _)
TeammatePass(M, s, b, r, mates) ==
    IF mates = <<>> THEN [M |-> M, ok |-> TRUE]
    ELSE LET t == Head(mates) IN
         IF IsPitcher(s[t])
         THEN TeammatePass(SetLoc(SetLoc(M, r, t, 0), t, r, 0), s, b, r, Tail(mates))
         ELSE IF ~(HasOrder(b, s[r].Order) /\ HasOrder(b, s[t].Order))
         THEN [M |-> M, ok |-> FALSE]
         ELSE LET order_corr == b[s[r].Order, s[t].Order] IN
              TeammatePass(SetLoc(SetLoc(M, r, t, order_corr), t, r, order_corr),
                           s, b, r, Tail(mates))

OppPitcherAssign(M, s, pcorr, r) ==
    SetLoc(SetLoc(M, r, s[r].Opp_Pitcher, pcorr), s[r].Opp_Pitcher, r, pcorr)

\* ------------------------------------------------------------------- Spec
Init ==
    /\ script \in {"corr", "cov"}
    /\ slate \in Slates(IF script = "corr" THEN MaxPlayers ELSE MaxCovPlayers)
    /\ batters_corr \in CorrFrames
    /\ pitchers_corr \in PitcherCorrValues
    /\ corr = EmptyFrame(slate)
    /\ i = 0
    /\ hist_in = <<>>
    /\ hist_std = <<>>
    /\ pc = "loop"
    /\ err = "none"
    /\ out = <<>>

Inputs == <<script, slate, batters_corr, pitchers_corr>>

\* One iteration of the loop on a pitcher row.
PitcherRow ==
    /\ pc = "loop" /\ i < Len(slate)
    /\ IsPitcher(slate[i + 1])
    /\ corr' = ZeroOthersInRow(SetLoc(corr, i + 1, i + 1, Scale), i + 1)
    /\ i' = i + 1
    /\ UNCHANGED <<Inputs, hist_in, hist_std, pc, err, out>>

\* One iteration of the loop on a batter row.
BatterRow ==
    /\ pc = "loop" /\ i < Len(slate)
    /\ ~IsPitcher(slate[i + 1])
    /\ LET r == i + 1
           pass == TeammatePass(SetLoc(corr, r, r, Scale), slate, batters_corr, r,
                                Teammates(slate, slate[r].Team, 1))
       IN  IF pass.ok
           THEN /\ corr' = FillNaRow(OppPitcherAssign(pass.M, slate, pitchers_corr, r), r)
                /\ i' = i + 1
                /\ UNCHANGED <<pc, err>>
           ELSE /\ corr' = pass.M
                /\ pc' = "error"
                /\ err' = "KeyError"
                /\ UNCHANGED i
    /\ UNCHANGED <<Inputs, hist_in, hist_std, out>>

\* ---------------------------------------------------------------- validator
IsSymmetric(M) == \A p \in DOMAIN M : M[p] = M[<<p[2], p[1]>>]

HasNaN(M) == \E p \in DOMAIN M : M[p] = NaN

\* np.array_equal(corr, corr.T): NaN differs from NaN
ArrayEqualTranspose(M) == IsSymmetric(M) /\ ~HasNaN(M)

\* The labels of S in increasing order.
RECURSIVE SetToSeq(_)
SetToSeq(S) ==
    IF S = {} THEN <<>>
    ELSE LET x == CHOOSE y \in S : \A z \in S : y <= z
         IN  <<x>> \o SetToSeq(S \ {x})

RemoveAt(q, k) == [n \in 1..(Len(q) - 1) |-> IF n < k THEN q[n] ELSE q[n + 1]]

\* Determinant of the submatrix with the given rows and columns (Laplace).
RECURSIVE Det(_, _, _)
Det(M, rows, cols) ==
    IF rows = <<>> THEN 1
    ELSE LET RECURSIVE Expand(_)
             Expand(k) ==
                 IF k > Len(cols) THEN 0
                 ELSE (IF k % 2 = 1 THEN 1 ELSE 0 - 1)
                        * M[rows[1], cols[k]] * Det(M, Tail(rows), RemoveAt(cols, k))
                      + Expand(k + 1)
         IN  Expand(1)

PrincipalMinor(M, S) == Det(M, SetToSeq(S), SetToSeq(S))

FrameNames(M) == {p[1] : p \in DOMAIN M}

\* A symmetric matrix has a negative eigenvalue iff a principal minor is negative,
\* and all its eigenvalues are positive iff every principal minor is positive.
HasNegativeEigenvalue(M) ==
    \E S \in SUBSET FrameNames(M) : S # {} /\ PrincipalMinor(M, S) < 0

AllEigenvaluesPositive(M) ==
    \A S \in SUBSET FrameNames(M) : S # {} => PrincipalMinor(M, S) > 0

\* The results np.all(np.linalg.eigvals(corr) >= 0) can have on a symmetric
\* matrix: an eigenvalue that is exactly 0 is computed as a rounding-size number
\* of either sign.
EigvalsNonNegative(M) ==
    IF HasNegativeEigenvalue(M) THEN {FALSE}
    ELSE IF AllEigenvaluesPositive(M) THEN {TRUE}
    ELSE {TRUE, FALSE}

\* Faulty variant: the test read as (not array_equal) & all(eigvals >= 0).
ValidatorNotBindsFirst(M) ==
    IF HasNaN(M) THEN {"LinAlgError"}
    ELSE {IF ~ArrayEqualTranspose(M) /\ e THEN "ValueError" ELSE "none" :
            e \in (IF IsSymmetric(M) THEN EigvalsNonNegative(M) ELSE {TRUE, FALSE})}

\* if not np.array_equal(corr, corr.T) & np.all(np.linalg.eigvals(corr) >= 0):
\*     raise ValueError(...)
\* "&" binds tighter than "not"; eigvals is evaluated in every case and raises
\* LinAlgError on a matrix that holds a NaN.
ValidatorOutcomes(M) ==
    IF HasNaN(M) THEN {"LinAlgError"}
    ELSE IF ~IsSymmetric(M) THEN {"ValueError"}
    ELSE {IF ArrayEqualTranspose(M) /\ e THEN "none" ELSE "ValueError" :
            e \in EigvalsNonNegative(M)}

Validate ==
    /\ pc = "loop" /\ i = Len(slate)
    /\ \E e \in ValidatorOutcomes(corr) :
          /\ err' = e
          /\ pc' = IF e = "none" THEN "validated" ELSE "error"
    /\ UNCHANGED <<Inputs, corr, i, hist_in, hist_std, out>>

\* --------------------------------------------------------- covariance scaler
default_pitcher_std == 15
default_other_std == 10

Absent == 0 - 1          \* the player has no row in the historical data
StdValues == {7}
HistStdStates == StdValues \cup {NaN, Absent}

\* for player in hist_std[hist_std.isna()].index: ...
FillDefaults(h, s) ==
    [n \in DOMAIN h |->
        IF h[n] = NaN
        THEN (IF s[n].Position = "P" THEN default_pitcher_std ELSE default_other_std)
        ELSE h[n]]

\* hist_std.loc[slate["Player"]], "Player" read as the slate's player identity
\* (the column data.py writes is "Name"): a label that is not in the series raises
\* KeyError (pandas from 1.0 on), or gives NaN if another label is found
\* (older pandas, with a warning); it raises in both when no label is found.
LocOutcomes(h) ==
    IF \A n \in DOMAIN h : h[n] # Absent THEN {"ok"}
    ELSE IF \A n \in DOMAIN h : h[n] = Absent THEN {"KeyError"}
    ELSE {"KeyError", "ok"}

Reindexed(h) == [n \in DOMAIN h |-> IF h[n] = Absent THEN NaN ELSE h[n]]

\* np.diag(hist_std) @ corr @ np.diag(hist_std)
Covariance(std, M) == [p \in DOMAIN M |-> std[p[1]] * M[p] * std[p[2]]]

Scale_Cov ==
    /\ pc = "validated" /\ script = "cov"
    /\ \E h \in [Names(slate) -> HistStdStates] :
       \E o \in LocOutcomes(h) :
          /\ hist_in' = h
          /\ IF o = "ok"
             THEN /\ hist_std' = FillDefaults(Reindexed(h), slate)
                  /\ pc' = "scaled"
                  /\ UNCHANGED err
             ELSE /\ hist_std' = <<>>
                  /\ pc' = "error"
                  /\ err' = "KeyError"
    /\ UNCHANGED <<Inputs, corr, i, out>>

\* corr.to_csv(...) in corr.py, cov.to_csv(...) in cov.py
WriteCsv ==
    /\ pc = (IF script = "corr" THEN "validated" ELSE "scaled")
    /\ out' = Append(out, IF script = "corr" THEN corr ELSE Covariance(hist_std, corr))
    /\ pc' = "done"
    /\ UNCHANGED <<Inputs, corr, i, hist_in, hist_std, err>>

Next == PitcherRow \/ BatterRow \/ Validate \/ Scale_Cov \/ WriteCsv

Spec == Init /\ [][Next]_vars

\* ================================================================== data.py
\* The merged slate at data.py line 103.  Position is the "/"-separated list of
\* FanDuel positions, Probable and Injured say whether "Probable Pitcher" and
\* "Injury Indicator" hold a value, Id is FanDuel's player id (never a
\* Nickname), and Opp_Pitcher is NoPitcher until line 119 creates the column.
DataTeams == {"A", "B"}

IdOf(n) == 0 - n

DataRowKinds ==
    [Position : {<<"P">>}, Team : DataTeams, Order : {0},
     Probable : BOOLEAN, Injured : BOOLEAN, Consensus : {0, 1}]
      \cup [Position : {<<"1B", "OF">>}, Team : DataTeams, Order : {0, 1},
            Probable : {FALSE}, Injured : BOOLEAN, Consensus : {0, 1}]

MergedRow(k, n) ==
    [Nickname |-> n, Id |-> IdOf(n), Position |-> k.Position, Team |-> k.Team,
     Opponent |-> Opponent(k.Team), Order |-> k.Order, Probable |-> k.Probable,
     Injured |-> k.Injured, Consensus |-> k.Consensus, Opp_Pitcher |-> NoPitcher]

MergedSlate(k) == [n \in DOMAIN k |-> MergedRow(k[n], n)]

InitData ==
    /\ script = "data"
    /\ \E len \in 1..MaxSlateRows :
          \E k \in [1..len -> DataRowKinds] : slate = MergedSlate(k)
    /\ batters_corr = <<>>
    /\ pitchers_corr = NaN
    /\ corr = <<>>
    /\ i = 0
    /\ hist_in = <<>>
    /\ hist_std = <<>>
    /\ pc = "drop_pitchers"
    /\ err = "none"
    /\ out = <<>>

Unused == <<script, batters_corr, pitchers_corr, corr, i, hist_in, hist_std>>

\* slate.drop(slate[(Position == "P") & (Probable Pitcher isna)].index)
NotBenchPitcher(row) == ~(row.Position = <<"P">> /\ ~row.Probable)

DropNonStartingPitchers ==
    /\ pc = "drop_pitchers"
    /\ slate' = SelectSeq(slate, NotBenchPitcher)
    /\ pc' = "normalize"
    /\ UNCHANGED <<Unused, err, out>>

\* str.split("/")[0], then replace({"C": "C/1B", "1B": "C/1B"})
FirstPosition(pos) ==
    IF Head(pos) \in {"C", "1B"} THEN <<"C/1B">> ELSE <<Head(pos)>>

NormalizePosition ==
    /\ pc = "normalize"
    /\ slate' = [n \in DOMAIN slate |->
                    [slate[n] EXCEPT !.Position = FirstPosition(slate[n].Position)]]
    /\ pc' = "drop_batters"
    /\ UNCHANGED <<Unused, err, out>>

\* slate.drop(slate[(Order == 0) & (Position != "P")].index)
NotBenchBatter(row) == ~(row.Order = 0 /\ row.Position # <<"P">>)

DropNonStartingBatters ==
    /\ pc = "drop_batters"
    /\ slate' = SelectSeq(slate, NotBenchBatter)
    /\ pc' = "drop_injured"
    /\ UNCHANGED <<Unused, err, out>>

\* slate[slate["Injury Indicator"].isna()]
NotInjured(row) == ~row.Injured

DropInjured ==
    /\ pc = "drop_injured"
    /\ slate' = SelectSeq(slate, NotInjured)
    /\ pc' = "resolve"
    /\ UNCHANGED <<Unused, err, out>>

\* The Id column of the pitchers of team t, in slate order.
RECURSIVE PitcherIds(_, _, _)
PitcherIds(s, t, n) ==
    IF n > Len(s) THEN <<>>
    ELSE (IF s[n].Team = t /\ s[n].Position = <<"P">> THEN <<s[n].Id>> ELSE <<>>)
           \o PitcherIds(s, t, n + 1)

Raises == 0 - (MaxSlateRows + 1)

\* Faulty variant: several opposing pitchers do not raise, the first one is taken.
opp_pitcher_first(s, x) ==
    IF x.Position = <<"P">> THEN NoPitcher
    ELSE LET series == PitcherIds(s, x.Opponent, 1) IN
         IF Len(series) = 0 THEN NoPitcher ELSE series[1]

\* opp_pitcher(x): NaN for a pitcher and for no opposing pitcher, raises on
\* several, else the Id of the one opposing pitcher.
opp_pitcher(s, x) ==
    IF x.Position = <<"P">> THEN NoPitcher
    ELSE LET series == PitcherIds(s, x.Opponent, 1) IN
         IF Len(series) = 0 THEN NoPitcher
         ELSE IF Len(series) > 1 THEN Raises
         ELSE series[1]

\* slate["Opp_Pitcher"] = slate.apply(opp_pitcher, axis=1).  On a frame with no
\* row, apply returns a frame, not a series, and whether the assignment of it
\* to one column raises depends on the pandas release.
ApplyOutcomes(s) ==
    IF s = <<>> THEN {"ValueError", "none"}
    ELSE IF \E n \in DOMAIN s : opp_pitcher(s, s[n]) = Raises THEN {"ValueError"}
    ELSE {"none"}

ResolveOppPitcher ==
    /\ pc = "resolve"
    /\ \E e \in ApplyOutcomes(slate) :
          IF e = "none"
          THEN /\ slate' = [n \in DOMAIN slate |->
                              [slate[n] EXCEPT !.Opp_Pitcher = opp_pitcher(slate, slate[n])]]
               /\ pc' = "drop_no_opp"
               /\ UNCHANGED err
          ELSE /\ pc' = "error"
               /\ err' = e
               /\ UNCHANGED slate
    /\ UNCHANGED <<Unused, out>>

\* slate.drop(slate[(Position != "P") & (Opp_Pitcher isna)].index)
HasOppPitcher(row) == ~(row.Position # <<"P">> /\ row.Opp_Pitcher = NoPitcher)

DropNoOppPitcher ==
    /\ pc = "drop_no_opp"
    /\ slate' = SelectSeq(slate, HasOppPitcher)
    /\ pc' = "positive"
    /\ UNCHANGED <<Unused, err, out>>

\* slate[slate["Consensus"] > 0]
PositiveConsensus(row) == row.Consensus > 0

KeepPositiveConsensus ==
    /\ pc = "positive"
    /\ slate' = SelectSeq(slate, PositiveConsensus)
    /\ pc' = "write"
    /\ UNCHANGED <<Unused, err, out>>

\* The column selection, the renaming and to_csv.
Renamed(row) ==
    [Name |-> row.Nickname, ID |-> row.Id, Position |-> row.Position[1],
     Team |-> row.Team, Opponent |-> row.Opponent, Order |-> row.Order,
     Opp_Pitcher |-> row.Opp_Pitcher, Projection |-> row.Consensus]

WriteSlate ==
    /\ pc = "write"
    /\ out' = Append(out, [n \in DOMAIN slate |-> Renamed(slate[n])])
    /\ pc' = "done"
    /\ UNCHANGED <<Unused, slate, err>>

NextData ==
    \/ DropNonStartingPitchers
    \/ NormalizePosition
    \/ DropNonStartingBatters
    \/ DropInjured
    \/ ResolveOppPitcher
    \/ DropNoOppPitcher
    \/ KeepPositiveConsensus
    \/ WriteSlate

SpecData == InitData /\ [][NextData]_vars

\* =================================================================== claims
\* Equality of two floats: NaN equals nothing, itself included.
FloatEq(a, b) == a # NaN /\ b # NaN /\ a = b

\* The assembly loop has processed every slate row (no lookup raised).
Processed == script \in {"corr", "cov"} /\ i = Len(slate)

Pitchers(s) == {n \in Names(s) : IsPitcher(s[n])}
Batters(s) == {n \in Names(s) : ~IsPitcher(s[n])}

\* Batter q faces pitcher p.
Faces(s, q, p) == ~IsPitcher(s[q]) /\ s[q].Opp_Pitcher = p

\* A correlation a teammate pass looks up (the batter's own pair included) has
\* no label in batters_corr, or is NaN ("no data").
NeededCorrelationAbsent ==
    \E r, t \in Batters(slate) :
        /\ slate[r].Team = slate[t].Team
        /\ \/ ~HasOrder(batters_corr, slate[r].Order)
           \/ ~HasOrder(batters_corr, slate[t].Order)
           \/ batters_corr[slate[r].Order, slate[t].Order] = NaN

\* Every historical correlation has a value.
HistoryDefined ==
    pitchers_corr # NaN /\ \A p \in DOMAIN batters_corr : batters_corr[p] # NaN

\* C1: for every slate that satisfies the upstream contract and every order of
\* its rows, the matrix left by the assembly loop is symmetric,
\* M[i,j] == M[j,i] for all players i, j (stated for historical correlations
\* that all have a value).
C1_Symmetric ==
    (Processed /\ HistoryDefined) =>
        \A a, b \in Names(slate) : FloatEq(corr[a, b], corr[b, a])

C3_OpposingPitcherCorrelation ==
    (Processed /\ pitchers_corr # NaN) =>
        \A p \in Batters(slate) :
            /\ corr[p, slate[p].Opp_Pitcher] = pitchers_corr
            /\ corr[slate[p].Opp_Pitcher, p] = pitchers_corr

\* C4: after the loop, M[p,p] == 1 for every slate player p.
C4_DiagonalOne ==
    Processed => \A p \in Names(slate) : corr[p, p] = Scale

\* C5: after the loop, for two distinct batters p, q of one team,
\* M[p,q] == M[q,p] == BattingOrderCorrelationMatrix[order(p), order(q)].
C5_TeammateOrderCorrelation ==
    Processed =>
        \A p, q \in Batters(slate) :
            (p # q /\ slate[p].Team = slate[q].Team) =>
                LET o == batters_corr[slate[p].Order, slate[q].Order] IN
                FloatEq(corr[p, q], o) /\ FloatEq(corr[q, p], o)

\* C6: if a historical correlation needed for a same-team batter pair is
\* absent, the run ends in an error: it never finishes, and no output file is
\* written.
C6_AbsentCorrelationIsFatal ==
    (script \in {"corr", "cov"} /\ NeededCorrelationAbsent) =>
        (pc # "done" /\ out = <<>>)

\* C7: the artifact is written only after the loop has completed and the
\* validator has passed: a written artifact means every row was processed, no
\* error was raised, the matrix equals its transpose and has no negative
\* eigenvalue; a run that raised stays in error and has written nothing.
C7_WriteOnlyAfterValidation ==
    script \in {"corr", "cov"} =>
        /\ out # <<>> =>
              /\ pc = "done" /\ err = "none" /\ Len(out) = 1
              /\ i = Len(slate)
              /\ ArrayEqualTranspose(corr)
              /\ ~HasNegativeEigenvalue(corr)
        /\ (err # "none") <=> (pc = "error")
        /\ pc = "error" => out = <<>>

C7_Witness ==
    /\ out # <<>> /\ script = "cov"
    /\ \E a, b \in Names(slate) : a # b /\ corr[a, b] # 0

\* C8: for every slate player whose historical standard deviation is missing
\* the covariance scaler does not abort: it uses 15 for a pitcher and 10
\* otherwise, every present value is kept, one entry per slate player.
C8_MissingStdGetsDefault ==
    (script = "cov" /\ hist_in # <<>>) =>
        /\ pc # "error"
        /\ DOMAIN hist_std = Names(slate)
        /\ \A n \in Names(slate) :
              hist_std[n] = IF hist_in[n] \in {NaN, Absent}
                            THEN (IF IsPitcher(slate[n]) THEN default_pitcher_std
                                  ELSE default_other_std)
                            ELSE hist_in[n]

\* ---------------------------------------------------------- claims, data.py
IsBatterRow(row) == row.Position # <<"P">>

OppPitcherCount(s, n) == Len(PitcherIds(s, s[n].Opponent, 1))

\* C9 (as claimed): when the opposing pitchers are resolved, a batter with
\* more than one or with no pitcher on the opponent team aborts the run.
C9_ZeroOrMultipleIsFatal ==
    [][(pc = "resolve"
         /\ \E n \in DOMAIN slate : IsBatterRow(slate[n]) /\ OppPitcherCount(slate, n) # 1)
        => pc' = "error"]_vars

\* C9 (amended): a batter with more than one pitcher on the opponent team
\* aborts the run with ValueError and nothing is written; a batter with no
\* pitcher there does not: its Opp_Pitcher is left missing, the next step
\* drops the batter, and the run goes on.
C9_MultipleIsFatalZeroIsDropped ==
    /\ [][pc = "resolve" =>
            /\ (\E n \in DOMAIN slate :
                    IsBatterRow(slate[n]) /\ OppPitcherCount(slate, n) > 1)
                  => (pc' = "error" /\ err' = "ValueError" /\ out' = <<>>)
            /\ ((\E n \in DOMAIN slate : IsBatterRow(slate[n]))
                  /\ (\A m \in DOMAIN slate :
                        IsBatterRow(slate[m]) => OppPitcherCount(slate, m) <= 1))
                  => /\ pc' = "drop_no_opp"
                     /\ \A n \in DOMAIN slate :
                           (IsBatterRow(slate[n]) /\ OppPitcherCount(slate, n) = 0)
                              => slate'[n].Opp_Pitcher = NoPitcher]_vars
    /\ [][pc = "drop_no_opp" =>
            /\ pc' = "positive"
            /\ \A n \in DOMAIN slate' :
                  IsBatterRow(slate'[n]) => slate'[n].Opp_Pitcher # NoPitcher]_vars
    /\ [](pc = "error" => out = <<>>)

C9_Witness ==
    /\ script = "data" /\ pc = "error" /\ err = "ValueError"
    /\ \E n \in DOMAIN slate : IsBatterRow(slate[n]) /\ OppPitcherCount(slate, n) > 1

\* C10: in the slate data.py writes, every batter's Opp_Pitcher identifies a
\* pitcher row of that slate by the key of the assembler's index (Name).
C10_OppPitcherIsSlateName ==
    (script = "data" /\ out # <<>>) =>
        LET w == out[1] IN
        \A n \in DOMAIN w :
            w[n].Position # "P" =>
                \E m \in DOMAIN w : w[m].Name = w[n].Opp_Pitcher /\ w[m].Position = "P"
====
